---- MODULE Spec2Model ----
(***************************************************************************)
(* Playback lifecycle of the radio page of gw-tech-site.                   *)
(*                                                                         *)
(* StationsPage (src/src/app/stations/page.tsx, lines 12-424) mounts one   *)
(* SecureAudioPlayer keyed by the selected station id; the player          *)
(* (same file, lines 462-917) owns one <audio> element, one AudioContext   *)
(* with its node chain, a reconnect timer and a visualizer frame loop.     *)
(*                                                                         *)
(* Every player instance React creates is one entry of `players`.  An      *)
(* instance that was unmounted stays in `players`: its <audio> element     *)
(* and its AudioContext still exist in the browser and can still receive   *)
(* media events.                                                           *)
(*                                                                         *)
(* The stream route GET /api/stream/[stationId] (src/unnamed/part_005)     *)
(* checks a per-address rate limit, looks the station up in                *)
(* data/radio-stations.ts, validates the host of its url and proxies the   *)
(* upstream stream.                                                        *)
(*                                                                         *)
(* Platform behaviour taken from the HTML and Web Audio standards:         *)
(*   - setting src / load() resets readyState, pauses the element;         *)
(*   - play() un-pauses the element unless the platform rejects it;        *)
(*   - an element removed from the document is paused;                     *)
(*   - a media element is bound to at most one MediaElementAudioSourceNode.*)
(***************************************************************************)
EXTENDS Integers, FiniteSets, Sequences, TLC

VARIABLES
    origin,           \* window.location.origin of the document
    isOn,             \* StationsPage state isOn
    isWarming,        \* StationsPage state isWarming
    selectedStation,  \* StationsPage state selectedStation (a station, or NoSelection)
    warmTimers,       \* outstanding 2000 ms warm-up timers of handlePowerToggle
    playTimers,       \* outstanding 0 ms play timers of handleStationSelect
    audioData,        \* StationsPage state audioData: the latest snapshot published
    players,          \* every SecureAudioPlayer instance created so far
    catalog,          \* data/radio-stations.ts: the url configured for each station id
    rateLimitMap,     \* stream route: rateLimitMap
    now               \* stream route: Date.now()

vars == <<origin, isOn, isWarming, selectedStation, warmTimers, playTimers, audioData,
          players, catalog, rateLimitMap, now>>

page == <<origin, isOn, isWarming, selectedStation, warmTimers, playTimers>>

server == <<catalog, rateLimitMap, now>>

----------------------------------------------------------------------------
(* Bounds of the model *)

MaxPlayers == 2       \* player instances created in one behaviour
MaxWarmTimers == 2    \* outstanding warm-up timers
MaxPlayTimers == 1    \* outstanding play timers
MaxPending == 2       \* canplay listeners registered by play() on one element
MaxInstances == 1     \* player instances an arbitrary parent creates
MaxLoops == 2         \* visualizer loops scheduled at once on one player
MaxLoads == 2         \* loads counted per target locator

PlayerIds == 1..MaxPlayers

----------------------------------------------------------------------------
(* Catalog and locators *)

\* radioStations ids
Stations == {"1", "2"}

NoStation == "none"

\* The url both stations are configured with.
AzuraCastUrl == "https://radio.watkinsgeorge.com/listen/test/radio.mp3"

\* Values the url field of a station can be given: the configured one, one on
\* a host that has the allowed domain as a prefix of its name, one on another
\* host, the placeholder of the template, the empty string, and a string
\* that is no absolute URL.
LookalikeUrl == "https://radio.watkinsgeorge.com.example.org/live.mp3"

ForeignUrl == "https://example.org/live.mp3"

Urls == {AzuraCastUrl, LookalikeUrl, ForeignUrl, "#", "", "listen/radio.mp3"}

\* radioStations as the repository configures it: station id |-> url.
radioStations == [s \in Stations |-> AzuraCastUrl]

\* The same stations with urls on other hosts.
ForeignCatalog == [s \in Stations |-> IF s = "1" THEN LookalikeUrl ELSE ForeignUrl]

\* Configurations with the same stations and other url fields.
Catalogs ==
    { radioStations,
      ForeignCatalog,
      [s \in Stations |-> IF s = "1" THEN "#" ELSE ""],
      [s \in Stations |-> IF s = "1" THEN "listen/radio.mp3" ELSE AzuraCastUrl] }

\* The RadioStation object of id s (the fields the program's behaviour
\* depends on).
Station(s) == [id |-> s, url |-> catalog[s]]

\* selectedStation = null
NoSelection == [id |-> NoStation, url |-> NoStation]

\* Origins the page can be served from: the development server and any other.
LocalOrigin == "http://localhost:3000"

Origins == {LocalOrigin, "https://deployed.example"}

\* A URL is <<origin, station id>>; the relative URL has the empty origin.
NoSrc == <<"", "">>

\* const streamUrl = `/api/stream/${stationId}`
StreamUrl(id) == <<"", id>>

\* The src IDL attribute reflects the content attribute resolved against the
\* document's base URL; an absent attribute reads as the empty string.
SrcGetter(r) == IF r.src = NoSrc THEN NoSrc ELSE <<origin, r.src[2]>>

----------------------------------------------------------------------------
(* One SecureAudioPlayer instance *)

NoPlayer == [
    status       |-> "none",
    stationId    |-> NoStation,
    isActive     |-> FALSE,
    isPoweredOn  |-> FALSE,
    src          |-> NoSrc,
    paused       |-> TRUE,
    ready        |-> FALSE,
    failed       |-> FALSE,
    ctx          |-> "none",
    sourceNode   |-> FALSE,
    analyser     |-> FALSE,
    gainNode     |-> FALSE,
    ctxGen       |-> 0,
    sourceGen    |-> 0,
    analyserGen  |-> 0,
    gainGen      |-> 0,
    decodeCalls  |-> 0,
    loads        |-> 0,
    frameRef     |-> "none",
    rafLoops     |-> 0,
    timerRef     |-> "none",
    timers       |-> 0,
    timerStation |-> NoStation,
    timerDelay   |-> 0,
    attempts     |-> 0,
    retries      |-> 0,
    isPlaying    |-> FALSE,
    error        |-> "null",
    pendingPlay  |-> 0,
    playError    |-> "none" ]

\* The instance React creates for <SecureAudioPlayer stationId isActive isPoweredOn/>
\* before its effects run: the refs and useState initial values.
NewPlayer(id, act, pow) ==
    [NoPlayer EXCEPT !.status = "mounted", !.stationId = id,
                     !.isActive = act, !.isPoweredOn = pow]

Mounted(r) == r.status = "mounted"

\* The element is rendering audio: un-paused, with data, not failed.
ElementPlaying(r) == r.src # NoSrc /\ ~r.paused /\ r.ready /\ ~r.failed

\* The session delivers audio to the output sink: the element plays and, when a
\* decode node routes it through the graph, the graph's context is running.
Audible(r) == ElementPlaying(r) /\ (r.sourceNode => r.ctx = "running")

Min(a, b) == IF a < b THEN a ELSE b


----------------------------------------------------------------------------
(* HTMLMediaElement, timers and animation frames *)

\* audio.pause()
audioPause(r) == [r EXCEPT !.paused = TRUE]

\* audio.play(): the platform either accepts the call (the element is no longer
\* paused and plays as soon as it has data) or rejects the promise and leaves
\* the element paused.
audioPlay(r, ok) == IF ok THEN [r EXCEPT !.paused = FALSE] ELSE r

\* audio.play() with the handler attached to its promise.  `playError` tells
\* what became of the latest play() call since the element's current load
\* began: "none" when the platform accepted it (or none was made), "reported"
\* when it was rejected and
\* the catch handler called onError, "swallowed" when it was rejected and the
\* catch handler did nothing.
audioPlayCatch(r, ok, callsOnError) ==
    [audioPlay(r, ok) EXCEPT
        !.playError = IF ok THEN "none"
                      ELSE IF callsOnError THEN "reported" ELSE "swallowed"]

\* audio.src = url (and audio.load()): the media element load algorithm starts
\* over: no data, no error, paused.  Listeners on the element stay registered.
audioLoad(r, url) ==
    [r EXCEPT !.src = url, !.ready = FALSE, !.failed = FALSE, !.paused = TRUE,
              !.playError = "none"]

\* cancelAnimationFrame(animationFrameRef.current): cancels the callback the
\* ref names, if that callback is still scheduled.  The ref keeps its value,
\* which from then on names no scheduled callback ("stale").
cancelAnimationFrame(r) ==
    IF r.frameRef = "live"
    THEN [r EXCEPT !.rafLoops = @ - 1, !.frameRef = "stale"]
    ELSE r

\* Mutation of clearTimeout: the timer stays armed.
clearTimeout_Noop(r) == r

\* clearTimeout(reconnectTimeoutRef.current), likewise.  `timerDelay` is the
\* delay of the outstanding timer in milliseconds, 0 when there is none.
clearTimeout(r) ==
    IF r.timerRef = "live"
    THEN [r EXCEPT !.timers = @ - 1, !.timerRef = "stale", !.timerDelay = 0]
    ELSE r

----------------------------------------------------------------------------
(* SecureAudioPlayer: the main effect *)

\* Mutation of NeedsWebAudioInit: the guard on sourceNodeRef is dropped.
NeedsWebAudioInit_Unguarded(r) == TRUE

\* if (!sourceNodeRef.current)
NeedsWebAudioInit(r) == ~r.sourceNode

\* The AudioContexts an instance creates are numbered 1, 2 (its generations);
\* ctxGen is the number of the one audioContextRef holds, sourceGen,
\* analyserGen and gainGen the number of the context each node was created
\* from (0: none).
NextGen(r) == Min(r.ctxGen + 1, 2)

\* Mutation of initWebAudio: the gain node is created from a context of its
\* own.
initWebAudio_OwnGainContext(r, ok) ==
    IF ~ok THEN r
    ELSE [r EXCEPT !.ctx = "suspended",
                   !.ctxGen = 1,
                   !.sourceNode = TRUE,
                   !.sourceGen = 1,
                   !.decodeCalls = Min(@ + 1, 2),
                   !.analyser = TRUE,
                   !.analyserGen = 1,
                   !.gainNode = TRUE,
                   !.gainGen = 2]

\* The try block that builds the graph.  new AudioContext() may throw (ok =
\* FALSE): the catch swallows it and no ref is set.  Otherwise the context is
\* stored and the decode node, the analyser and the gain node are created
\* from it and wired.
initWebAudio(r, ok) ==
    IF ~ok THEN r
    ELSE [r EXCEPT !.ctx = "suspended",
                   !.ctxGen = NextGen(r),
                   !.sourceNode = TRUE,
                   !.sourceGen = NextGen(r),
                   !.decodeCalls = Min(@ + 1, 2),
                   !.analyser = TRUE,
                   !.analyserGen = NextGen(r),
                   !.gainNode = TRUE,
                   !.gainGen = NextGen(r)]

\* if (audioContextRef.current?.state === 'suspended') resume()
resumeContext(r) == IF r.ctx = "suspended" THEN [r EXCEPT !.ctx = "running"] ELSE r

\* if (audio.src === `http://localhost:3000${streamUrl}` || audio.src === streamUrl)
AlreadyLoading(r) ==
    \/ SrcGetter(r) = <<LocalOrigin, r.stationId>>
    \/ SrcGetter(r) = StreamUrl(r.stationId)

\* updateData(): one pass of the visualizer loop: a snapshot goes to
\* onAudioData and the next frame is requested.  isActive and isPoweredOn are
\* the values the effect run closed over, both true in the branch that
\* defines updateData.
updateData(r) ==
    IF r.analyser
    THEN [r EXCEPT !.frameRef = "live"]
    ELSE r

\* audio.src = streamUrl; audio.load(); ...; reconnectAttemptsRef.current = 0;
\* and the start of the visualizer.  `loads` counts the loads the effect has
\* issued for the locator the element already had.
prepareSource(r) ==
    LET again == r.src = StreamUrl(r.stationId)
        r1 == [audioLoad(r, StreamUrl(r.stationId)) EXCEPT
                  !.loads = IF again THEN Min(@ + 1, MaxLoads) ELSE 1,
                  !.attempts = 0]
    IN IF r1.analyser
       THEN [updateData(r1) EXCEPT !.rafLoops = @ + 1]
       ELSE r1

\* The else branch of the main effect: not active or powered off.
deactivate(r) ==
    LET r1 == [audioPause(r) EXCEPT !.isPlaying = FALSE]
        r2 == IF r1.frameRef # "none"
              THEN [cancelAnimationFrame(r1) EXCEPT !.frameRef = "none"] ELSE r1
    IN IF r2.timerRef # "none"
       THEN [clearTimeout(r2) EXCEPT !.timerRef = "none"] ELSE r2

\* The active branch of the main effect up to the duplicate-load check:
\* audio.pause(), cancel the frame the ref names, build the graph once,
\* resume a suspended context.
ensureGraph(r, ctxOk) ==
    LET r1 == audioPause(r)
        r2 == IF r1.frameRef # "none"
              THEN [cancelAnimationFrame(r1) EXCEPT !.frameRef = "none"] ELSE r1
        r3 == IF NeedsWebAudioInit(r2) THEN initWebAudio(r2, ctxOk) ELSE r2
    IN resumeContext(r3)

\* useEffect(() => {...}, [isActive, isPoweredOn, stationId])
mainEffect(r, ctxOk) ==
    IF r.isActive /\ r.isPoweredOn
    THEN LET r4 == ensureGraph(r, ctxOk)
         IN IF AlreadyLoading(r4) THEN r4 ELSE prepareSource(r4)
    ELSE deactivate(r)

\* The effect run reaches updateData() and hands a snapshot to onAudioData.
effectPublishes(r, ctxOk) ==
    /\ r.isActive /\ r.isPoweredOn
    /\ ~AlreadyLoading(ensureGraph(r, ctxOk))
    /\ ensureGraph(r, ctxOk).analyser

\* Mutation of cleanupEffect: the reconnect timer is left armed.
cleanupEffect_KeepsTimer(r) == cancelAnimationFrame(r)

\* The cleanup returned by the second effect (deps [stationId]): cancels the
\* frame and the timer the refs name; does not pause, does not close.
cleanupEffect(r) == clearTimeout(cancelAnimationFrame(r))

\* React removes the instance: the cleanup runs, audioRef.current becomes null
\* and the <audio> element leaves the document, which pauses it.  The state
\* and the refs of the instance are discarded with it; the element, its
\* listeners and its AudioContext are not.
unmount(r) ==
    [audioPause(cleanupEffect(r)) EXCEPT !.status = "unmounted",
                                         !.isPlaying = FALSE,
                                         !.error = "null",
                                         !.attempts = 0,
                                         !.retries = 0,
                                         !.loads = 0,
                                         !.frameRef = "none",
                                         !.timerRef = "none",
                                         !.timerStation = NoStation,
                                         !.playError = "none"]


----------------------------------------------------------------------------
(* SecureAudioPlayer: the imperative handle *)

\* The guards of play(): the audio element exists, isActive, isPoweredOn.
CanRequestPlay(r) == Mounted(r) /\ r.isActive /\ r.isPoweredOn

\* play().  With readyState < 3 a new one-shot 'canplay' listener playWhenReady
\* is registered and the call returns; otherwise audio.play() is called and
\* isPlaying is set at once, whatever the promise does later.
play(r, ok) ==
    IF ~CanRequestPlay(r) THEN r
    ELSE LET r1 == resumeContext(r)
         IN IF ~r1.ready
            THEN [r1 EXCEPT !.pendingPlay = @ + 1]
            ELSE [audioPlayCatch(r1, ok, TRUE) EXCEPT !.isPlaying = TRUE,
                                           !.retries = IF ok THEN 0 ELSE @]

\* pause()
pause(r) ==
    IF ~Mounted(r) THEN r
    ELSE [audioPause(r) EXCEPT !.isPlaying = FALSE]

----------------------------------------------------------------------------
(* SecureAudioPlayer: reconnection and media event handlers *)

MaxReconnectAttempts == 3

ReconnectBaseDelay == 3000

ReconnectDelayCap == 10000

\* Mutation of RetriesExhausted: the counter is never tested.
RetriesExhausted_Never(r) == FALSE

\* if (reconnectAttemptsRef.current >= 3)
RetriesExhausted(r) == r.attempts >= MaxReconnectAttempts

\* Mutation of reconnectDelay: every attempt waits the base delay.
reconnectDelay_Fixed(n) == ReconnectBaseDelay

\* const delay = Math.min(3000 * reconnectAttemptsRef.current, 10000)
reconnectDelay(n) == Min(ReconnectBaseDelay * n, ReconnectDelayCap)

\* attemptReconnect().  `retries` is bookkeeping of the model: the reconnect
\* timers scheduled since playback last started on the instance.
attemptReconnect(r) ==
    IF RetriesExhausted(r)
    THEN [r EXCEPT !.error = "failed"]
    ELSE LET r1 == IF r.timerRef # "none" THEN clearTimeout(r) ELSE r
         IN [r1 EXCEPT !.attempts = @ + 1,
                       !.retries = Min(@ + 1, MaxReconnectAttempts + 1),
                       !.timers = @ + 1,
                       !.timerRef = "live",
                       !.timerDelay = reconnectDelay(r1.attempts + 1),
                       !.timerStation = r.stationId]

\* handleError (the element's onError prop)
handleError(r) ==
    attemptReconnect([r EXCEPT !.error = "retrying", !.isPlaying = FALSE])

\* handleCanPlay (the element's onCanPlay prop)
handleCanPlay(r) == [r EXCEPT !.error = "null"]

\* handlePlaying (the element's onPlaying prop)
handlePlaying(r) == [r EXCEPT !.isPlaying = TRUE, !.retries = 0]

\* The callback attemptReconnect schedules.  audioRef.current is null once the
\* instance is unmounted.  The rejection of its audio.play() is caught by an
\* empty handler.
reconnectCallback(r, ok) ==
    LET r1 == [r EXCEPT !.timers = @ - 1,
                        !.timerDelay = 0,
                        !.timerRef = IF r.timers = 1 /\ @ = "live" THEN "stale" ELSE @]
    IN IF ~Mounted(r1) THEN r1
       ELSE audioPlayCatch(audioLoad([r1 EXCEPT !.error = "reconnecting"],
                                     StreamUrl(r1.timerStation)), ok, FALSE)

\* Mutation of playWhenReady: the listeners do not run.
playWhenReady_Skips(r, ok) == r

\* playWhenReady: every listener play() registered runs once on 'canplay' and
\* calls audio.play(); its then-branch sets isPlaying (a state update on an
\* unmounted instance is dropped), its catch-branch calls onError.
playWhenReady(r, ok) ==
    IF r.pendingPlay = 0 THEN r
    ELSE LET r1 == [audioPlayCatch(r, ok, TRUE) EXCEPT !.pendingPlay = 0]
         IN IF ok /\ Mounted(r1) THEN [r1 EXCEPT !.isPlaying = TRUE] ELSE r1

\* The element reaches HAVE_FUTURE_DATA: 'canplay' is dispatched to the React
\* prop handler (while mounted) and to the listeners on the element; an element
\* that is not paused starts playing and dispatches 'playing'.
canplayEvent(r, ok) ==
    LET r1 == [r EXCEPT !.ready = TRUE]
        r2 == IF Mounted(r1) THEN handleCanPlay(r1) ELSE r1
        r3 == playWhenReady(r2, ok)
    IN IF ~r3.paused /\ Mounted(r3) THEN handlePlaying(r3) ELSE r3

\* The fetch or the decoder fails: the element has an error and no data, and
\* 'error' is dispatched to the React prop handler (while mounted).
errorEvent(r) ==
    LET r1 == [r EXCEPT !.failed = TRUE, !.ready = FALSE]
    IN IF Mounted(r1) THEN handleError(r1) ELSE r1

\* The frame callback of the visualizer loop.
frameCallback(r) == updateData(r)


----------------------------------------------------------------------------
(* The stream route /api/stream/[stationId] *)

RATE_LIMIT_WINDOW == 60 * 1000

RATE_LIMIT_MAX_REQUESTS == 50

\* The addresses the route tells apart; "unknown" is the fallback of GET.
Ips == {"10.0.0.1", "unknown"}

\* The x-forwarded-for and x-real-ip headers of a request ("" for an absent
\* header).
Headers ==
    { [xff |-> "10.0.0.1", xri |-> ""],
      [xff |-> "", xri |-> "10.0.0.1"],
      [xff |-> "", xri |-> ""] }

\* request.headers.get('x-forwarded-for') || request.headers.get('x-real-ip')
\*   || 'unknown'
ClientIp(h) == IF h.xff # "" THEN h.xff ELSE IF h.xri # "" THEN h.xri ELSE "unknown"

\* rateLimitMap.get(ip) === undefined
NoRecord == [count |-> 0, resetTime |-> 0]

\* Mutation of checkRateLimit: a rejected request is counted too.
checkRateLimit_CountsRejected(map, t, ip) ==
    LET record == map[ip]
    IN IF record = NoRecord \/ t > record.resetTime
       THEN [allowed |-> TRUE,
             map |-> [map EXCEPT ![ip] = [count |-> 1,
                                          resetTime |-> t + RATE_LIMIT_WINDOW]]]
       ELSE [allowed |-> record.count < RATE_LIMIT_MAX_REQUESTS,
             map |-> [map EXCEPT ![ip].count = @ + 1]]

\* Mutation of checkRateLimit: the window is over at resetTime already.
checkRateLimit_AtResetTime(map, t, ip) ==
    LET record == map[ip]
    IN IF record = NoRecord \/ t >= record.resetTime
       THEN [allowed |-> TRUE,
             map |-> [map EXCEPT ![ip] = [count |-> 1,
                                          resetTime |-> t + RATE_LIMIT_WINDOW]]]
       ELSE IF record.count >= RATE_LIMIT_MAX_REQUESTS
       THEN [allowed |-> FALSE, map |-> map]
       ELSE [allowed |-> TRUE, map |-> [map EXCEPT ![ip].count = @ + 1]]

\* checkRateLimit(ip) at time t: the verdict and the map afterwards.
checkRateLimit(map, t, ip) ==
    LET record == map[ip]
    IN IF record = NoRecord \/ t > record.resetTime
       THEN [allowed |-> TRUE,
             map |-> [map EXCEPT ![ip] = [count |-> 1,
                                          resetTime |-> t + RATE_LIMIT_WINDOW]]]
       ELSE IF record.count >= RATE_LIMIT_MAX_REQUESTS
       THEN [allowed |-> FALSE, map |-> map]
       ELSE [allowed |-> TRUE, map |-> [map EXCEPT ![ip].count = @ + 1]]

\* The callback of setInterval: deletes the records whose window is over.
cleanupRecords(map, t) ==
    [ip \in Ips |-> IF t > map[ip].resetTime THEN NoRecord ELSE map[ip]]

\* new URL(u) succeeds (u is an absolute URL).
Parses(u) == u \in {AzuraCastUrl, LookalikeUrl, ForeignUrl}

\* new URL(u).hostname, as the sequence of its labels.
Hostname(u) ==
    CASE u = AzuraCastUrl -> <<"radio", "watkinsgeorge", "com">>
      [] u = LookalikeUrl -> <<"radio", "watkinsgeorge", "com", "example", "org">>
      [] OTHER            -> <<"example", "org">>

\* const allowedDomain = 'radio.watkinsgeorge.com'
allowedDomain == <<"radio", "watkinsgeorge", "com">>

\* String.prototype.includes, on names split into labels: d occurs in h as a
\* run of consecutive labels.
Includes(h, d) ==
    \E i \in 0..(Len(h) - Len(d)) : SubSeq(h, i + 1, i + Len(d)) = d

\* What fetch(streamUrl) does: a response with a body, a response that is not
\* ok, an ok response without a body, or a rejected promise (the upstream
\* cannot be reached).
Upstream == {"ok", "notOk", "noBody", "rejects"}

\* Station ids a request can name: the configured ones and one that is not.
RequestIds == Stations \cup {"3"}

NoFetch == "none"

\* GET(request, {params}) at time t with configuration cat: the response (its
\* status and the URL that was fetched to produce it, if any) and the rate
\* limit map afterwards.  The statements are taken in the order of
\* the code; the outer catch answers 500 when fetch rejects.
GET(map, t, cat, h, id, up) ==
    LET rl == checkRateLimit(map, t, ClientIp(h))
        streamUrl == cat[id]
        response ==
            IF ~rl.allowed THEN [status |-> 429, fetched |-> NoFetch]
            ELSE IF id \notin DOMAIN cat THEN [status |-> 404, fetched |-> NoFetch]
            ELSE IF streamUrl = "" \/ streamUrl = "#"
                 THEN [status |-> 503, fetched |-> NoFetch]
            ELSE IF ~Parses(streamUrl) THEN [status |-> 500, fetched |-> NoFetch]
            ELSE IF ~Includes(Hostname(streamUrl), allowedDomain)
                 THEN [status |-> 403, fetched |-> NoFetch]
            ELSE IF up = "rejects" THEN [status |-> 500, fetched |-> streamUrl]
            ELSE IF up = "notOk" THEN [status |-> 503, fetched |-> streamUrl]
            ELSE IF up = "noBody" THEN [status |-> 503, fetched |-> streamUrl]
            ELSE [status |-> 200, fetched |-> streamUrl]
    IN [response |-> response, map |-> rl.map]

\* The instants of the model: the load of the route module, the end of the
\* first rate limit window, and the millisecond after it.
Instants == {0, RATE_LIMIT_WINDOW, RATE_LIMIT_WINDOW + 1}

----------------------------------------------------------------------------
(* StationsPage *)

MountedIds == {p \in PlayerIds : Mounted(players[p])}

CreatedIds == {p \in PlayerIds : players[p].status # "none"}

\* The next instance React creates.
NextId == Cardinality(CreatedIds) + 1

\* Mutation of UnmountCurrent: the player stays in the tree.
UnmountCurrent_Keeps == players

\* The players after the instance in the page's single keyed slot, if any, is
\* unmounted.
UnmountCurrent == [p \in PlayerIds |->
                      IF Mounted(players[p]) THEN unmount(players[p]) ELSE players[p]]

\* onAudioData = setAudioData: every published snapshot replaces the page's
\* audioData.  Consecutive snapshots are told apart by an alternating token.
NextSnapshot == 1 - audioData

\* The state after the page and the route module are loaded, for a document
\* origin in `origins` and a station configuration in `catalogs`.
InitWith(origins, catalogs) ==
    /\ origin \in origins
    /\ isOn = FALSE
    /\ isWarming = FALSE
    /\ selectedStation = NoSelection
    /\ warmTimers = 0
    /\ playTimers = 0
    /\ audioData = 0
    /\ players = [p \in PlayerIds |-> NoPlayer]
    /\ catalog \in catalogs
    /\ rateLimitMap = [ip \in Ips |-> NoRecord]
    /\ now = 0

\* The repository's configuration, served from any origin.
Init == InitWith(Origins, {radioStations})

\* handlePowerToggle, radio off: start warming, arm the 2000 ms timer.
PowerOn ==
    /\ ~isOn
    /\ warmTimers < MaxWarmTimers
    /\ isWarming' = TRUE
    /\ warmTimers' = warmTimers + 1
    /\ UNCHANGED <<server, origin, isOn, selectedStation, playTimers, audioData, players>>

\* handlePowerToggle, radio on: setIsOn(false); setSelectedStation(null).  The
\* player leaves the tree in the same render.
PowerOff ==
    /\ isOn
    /\ isOn' = FALSE
    /\ selectedStation' = NoSelection
    /\ players' = UnmountCurrent
    /\ UNCHANGED <<server, origin, isWarming, warmTimers, playTimers, audioData>>

\* The warm-up timer of handlePowerToggle fires.
WarmUpDone ==
    /\ warmTimers > 0
    /\ warmTimers' = warmTimers - 1
    /\ isOn' = TRUE
    /\ isWarming' = FALSE
    /\ UNCHANGED <<server, origin, selectedStation, playTimers, audioData, players>>

\* handleStationSelect(station) with the radio on, for the station already
\* selected: the state does not change, the play timer is armed.
Reselect(s) ==
    /\ isOn
    /\ s = selectedStation.id
    /\ playTimers < MaxPlayTimers
    /\ playTimers' = playTimers + 1
    /\ UNCHANGED <<server, origin, isOn, isWarming, selectedStation, warmTimers, audioData, players>>

\* handleStationSelect(station) with the radio on, for another station: the
\* keyed player of the previous station is unmounted, a new instance is
\* mounted and its effects run; the play timer is armed.
Select(s) ==
    /\ isOn
    /\ s # selectedStation.id
    /\ playTimers < MaxPlayTimers
    /\ NextId <= MaxPlayers
    /\ selectedStation' = Station(s)
    /\ playTimers' = playTimers + 1
    /\ \E ctxOk \in BOOLEAN :
          /\ players' = [UnmountCurrent EXCEPT
                            ![NextId] = mainEffect(NewPlayer(s, TRUE, isOn), ctxOk)]
          /\ audioData' = IF effectPublishes(NewPlayer(s, TRUE, isOn), ctxOk)
                          THEN NextSnapshot ELSE audioData
    /\ UNCHANGED <<server, origin, isOn, isWarming, warmTimers>>

\* The 0 ms timer of handleStationSelect fires: audioPlayerRef.current?.play().
PlayTimer ==
    /\ playTimers > 0
    /\ playTimers' = playTimers - 1
    /\ \E ok \in BOOLEAN :
          players' = [p \in PlayerIds |->
                         IF Mounted(players[p]) THEN play(players[p], ok) ELSE players[p]]
    /\ \A p \in PlayerIds : players'[p].pendingPlay <= MaxPending
    /\ UNCHANGED <<server, origin, isOn, isWarming, selectedStation, warmTimers, audioData>>

----------------------------------------------------------------------------
(* The framework and the platform *)

\* React runs the effects of a mounted instance again with unchanged props
\* (Strict Mode, Fast Refresh): every cleanup, then every effect.
Rerun(p) ==
    /\ Mounted(players[p])
    /\ \E ctxOk \in BOOLEAN :
          /\ players' = [players EXCEPT ![p] = mainEffect(cleanupEffect(@), ctxOk)]
          /\ audioData' = IF effectPublishes(cleanupEffect(players[p]), ctxOk)
                          THEN NextSnapshot ELSE audioData
    /\ UNCHANGED <<page, server>>

\* An element that is unmounted, paused and without listeners has no further
\* observable behaviour.
Observable(r) == Mounted(r) \/ (r.status = "unmounted" /\ (r.pendingPlay > 0 \/ ~r.paused))

\* The load of p's element reaches readiness.
CanPlay(p) ==
    /\ Observable(players[p])
    /\ players[p].src # NoSrc /\ ~players[p].ready /\ ~players[p].failed
    /\ \E ok \in BOOLEAN :
          players' = [players EXCEPT ![p] = canplayEvent(@, ok)]
    /\ UNCHANGED <<page, server, audioData>>

\* What the element's request to /api/stream/<id> can end with when the stream
\* fails: an error status of the proxy route, or 200 for a stream that started
\* and broke off.
FailureStatuses == {429, 404, 503, 403, 500, 200}

\* The stream of p's element fails, the response having status st.  The media
\* element does not expose the status: the 'error' event is all the player
\* sees.
StreamError(p, st) ==
    /\ Observable(players[p])
    /\ players[p].src # NoSrc /\ ~players[p].failed
    /\ players' = [players EXCEPT ![p] = errorEvent(@)]
    /\ UNCHANGED <<page, server, audioData>>

\* A reconnect timer of p fires.
ReconnectTimer(p) ==
    /\ players[p].timers > 0
    /\ \E ok \in BOOLEAN :
          players' = [players EXCEPT ![p] = reconnectCallback(@, ok)]
    /\ UNCHANGED <<page, server, audioData>>

\* A scheduled animation frame of p's visualizer loop runs.
Tick(p) ==
    /\ players[p].rafLoops > 0
    /\ players' = [players EXCEPT ![p] = frameCallback(@)]
    /\ audioData' = NextSnapshot
    /\ UNCHANGED <<page, server>>

\* The platform suspends the running AudioContext of p (an interruption, the
\* autoplay policy): the state play() and the main effect test for.
ContextSuspends(p) ==
    /\ Mounted(players[p])
    /\ players[p].ctx = "running"
    /\ players' = [players EXCEPT ![p].ctx = "suspended"]
    /\ UNCHANGED <<page, server, audioData>>

Next ==
    \/ PowerOn
    \/ PowerOff
    \/ WarmUpDone
    \/ \E s \in Stations : Reselect(s)
    \/ \E s \in Stations : Select(s)
    \/ PlayTimer
    \/ \E p \in PlayerIds : Rerun(p)
    \/ \E p \in PlayerIds : CanPlay(p)
    \/ \E p \in PlayerIds, st \in FailureStatuses : StreamError(p, st)
    \/ \E p \in PlayerIds : ReconnectTimer(p)
    \/ \E p \in PlayerIds : Tick(p)

Spec == Init /\ [][Next]_vars


----------------------------------------------------------------------------
(* SecureAudioPlayer under an arbitrary parent *)

\* The parent renders the player with props of its choice, changes them while
\* the player is mounted, calls the handle and removes the player.  At most one
\* player is in the tree.

\* A prop change: the cleanup of the second effect runs when stationId changed,
\* then the main effect runs with the new props.
setProps(r, id, act, pow, ctxOk) ==
    LET r1 == IF id # r.stationId THEN cleanupEffect(r) ELSE r
    IN mainEffect([r1 EXCEPT !.stationId = id, !.isActive = act, !.isPoweredOn = pow],
                  ctxOk)

propsPublish(r, id, act, pow, ctxOk) ==
    LET r1 == IF id # r.stationId THEN cleanupEffect(r) ELSE r
    IN effectPublishes([r1 EXCEPT !.stationId = id, !.isActive = act,
                                  !.isPoweredOn = pow], ctxOk)

CMount(s, act, pow) ==
    /\ MountedIds = {}
    /\ NextId <= MaxInstances
    /\ \E ctxOk \in BOOLEAN :
          /\ players' = [players EXCEPT
                            ![NextId] = mainEffect(NewPlayer(s, act, pow), ctxOk)]
          /\ audioData' = IF effectPublishes(NewPlayer(s, act, pow), ctxOk)
                          THEN NextSnapshot ELSE audioData
    /\ UNCHANGED <<page, server>>

CSetProps(p, s, act, pow) ==
    /\ Mounted(players[p])
    /\ <<s, act, pow>> # <<players[p].stationId, players[p].isActive, players[p].isPoweredOn>>
    /\ \E ctxOk \in BOOLEAN :
          /\ players' = [players EXCEPT ![p] = setProps(@, s, act, pow, ctxOk)]
          /\ audioData' = IF propsPublish(players[p], s, act, pow, ctxOk)
                          THEN NextSnapshot ELSE audioData
    /\ UNCHANGED <<page, server>>

CUnmount(p) ==
    /\ Mounted(players[p])
    /\ players' = [players EXCEPT ![p] = unmount(@)]
    /\ UNCHANGED <<page, server, audioData>>

\* The parent calls play() on the handle.
CPlay(p) ==
    /\ Mounted(players[p])
    /\ \E ok \in BOOLEAN :
          players' = [players EXCEPT ![p] = play(@, ok)]
    /\ players'[p].pendingPlay <= MaxPending
    /\ UNCHANGED <<page, server, audioData>>

\* The parent calls pause() on the handle.
CPause(p) ==
    /\ Mounted(players[p])
    /\ players' = [players EXCEPT ![p] = pause(@)]
    /\ UNCHANGED <<page, server, audioData>>

NextComp ==
    \/ \E s \in Stations, act \in BOOLEAN, pow \in BOOLEAN : CMount(s, act, pow)
    \/ \E p \in PlayerIds, s \in Stations, act \in BOOLEAN, pow \in BOOLEAN :
          CSetProps(p, s, act, pow)
    \/ \E p \in PlayerIds : CUnmount(p)
    \/ \E p \in PlayerIds : CPlay(p)
    \/ \E p \in PlayerIds : CPause(p)
    \/ \E p \in PlayerIds : Rerun(p)
    \/ \E p \in PlayerIds : CanPlay(p)
    \/ \E p \in PlayerIds, st \in FailureStatuses : StreamError(p, st)
    \/ \E p \in PlayerIds : ReconnectTimer(p)
    \/ \E p \in PlayerIds : Tick(p)
    \/ \E p \in PlayerIds : ContextSuspends(p)

SpecComp == Init /\ [][NextComp]_vars

----------------------------------------------------------------------------
(* The stream route under arbitrary requests *)

\* A request with headers h for station id arrives; the upstream behaves as
\* up.  The response goes to the client; the map keeps the count.
Request(h, id, up) ==
    /\ rateLimitMap' = GET(rateLimitMap, now, catalog, h, id, up).map
    /\ UNCHANGED <<page, audioData, players, catalog, now>>

\* The response GET gives in the current state.
ResponseTo(h, id, up) == GET(rateLimitMap, now, catalog, h, id, up).response

\* Time passes.
Advance(t) ==
    /\ t > now
    /\ now' = t
    /\ UNCHANGED <<page, audioData, players, catalog, rateLimitMap>>

\* The interval timer of the route module fires (every RATE_LIMIT_WINDOW ms).
CleanupInterval ==
    /\ now >= RATE_LIMIT_WINDOW
    /\ rateLimitMap' = cleanupRecords(rateLimitMap, now)
    /\ UNCHANGED <<page, audioData, players, catalog, now>>

\* The route module loaded with any of the configurations.
InitProxy == InitWith({LocalOrigin}, Catalogs)

NextProxy ==
    \/ \E h \in Headers, id \in RequestIds, up \in Upstream : Request(h, id, up)
    \/ \E t \in Instants : Advance(t)
    \/ CleanupInterval

SpecProxy == InitProxy /\ [][NextProxy]_vars

\* The stations page with either of two configurations that differ in the
\* url fields only.
InitCatalogs == InitWith({LocalOrigin}, {radioStations, ForeignCatalog})

SpecCatalogs == InitCatalogs /\ [][Next]_vars

----------------------------------------------------------------------------
(* The player of src/src/components/radio/SecureAudioPlayer.tsx *)

\* This version of the component has no handle: its effect prepares and plays.
\* Its event handlers and attemptReconnect read the same as above.

\* if (!audioContextRef.current)
legacyNeedsInit(r) == r.ctx = "none"

\* The graph construction of the effect (no try/catch around it; construction
\* is taken to succeed).
legacyInit(r) ==
    [r EXCEPT !.ctx = "suspended",
              !.ctxGen = NextGen(r),
              !.sourceNode = TRUE,
              !.sourceGen = NextGen(r),
              !.decodeCalls = Min(@ + 1, 2),
              !.analyser = TRUE,
              !.analyserGen = NextGen(r),
              !.gainNode = TRUE,
              !.gainGen = NextGen(r)]

\* const fullUrl = new URL(streamUrl, window.location.origin).href;
\* if (audio.src !== fullUrl)
legacySrcDiffers(r) == SrcGetter(r) # <<origin, r.stationId>>

\* The visualizer start of the effect: updateData() without cancelling the
\* frame an earlier run requested.
legacyStartVisualizer(r) ==
    IF r.analyser THEN [updateData(r) EXCEPT !.rafLoops = @ + 1] ELSE r

\* The else branch of the effect: pause, clear src, cancel frame and timer (the
\* refs keep their values).
legacyDeactivate(r) ==
    LET r1 == [audioLoad(audioPause(r), NoSrc) EXCEPT !.isPlaying = FALSE]
        r2 == IF r1.frameRef # "none" THEN cancelAnimationFrame(r1) ELSE r1
    IN IF r2.timerRef # "none" THEN clearTimeout(r2) ELSE r2

\* useEffect(() => {...}, [isActive, isPoweredOn, stationId])
legacyEffect(r, ok) ==
    IF r.isActive /\ r.isPoweredOn
    THEN LET r1 == IF legacyNeedsInit(r) THEN legacyInit(r) ELSE r
             r2 == resumeContext(r1)
             r3 == IF legacySrcDiffers(r2) THEN audioLoad(r2, StreamUrl(r2.stationId))
                   ELSE r2
             r4 == [audioPlayCatch(r3, ok, TRUE) EXCEPT !.isPlaying = TRUE,
                                                        !.attempts = 0]
         IN legacyStartVisualizer(r4)
    ELSE legacyDeactivate(r)

legacyPublishes(r) == r.isActive /\ r.isPoweredOn /\ (legacyNeedsInit(r) \/ r.analyser)

\* audioContextRef.current.close(): closes the context (on a context that is
\* closed already the promise rejects).
closeContext(r) == IF r.ctx = "none" THEN r ELSE [r EXCEPT !.ctx = "closed"]

\* The cleanup of the mount effect (deps []).  `attached` tells whether
\* audioRef.current still holds the element: it does when the framework only
\* simulates the unmount, it is null when the instance is really removed.
legacyCleanup(r, attached) ==
    LET r1 == IF attached THEN audioLoad(audioPause(r), NoSrc) ELSE r
        r2 == IF r1.frameRef # "none" THEN cancelAnimationFrame(r1) ELSE r1
        r3 == IF r2.timerRef # "none" THEN clearTimeout(r2) ELSE r2
    IN closeContext(r3)

\* React removes the instance (see unmount above).
legacyUnmount(r) ==
    [audioPause(legacyCleanup(r, FALSE)) EXCEPT !.status = "unmounted",
                                                !.isPlaying = FALSE,
                                                !.error = "null",
                                                !.attempts = 0,
                                                !.retries = 0,
                                                !.loads = 0,
                                                !.frameRef = "none",
                                                !.timerRef = "none",
                                                !.timerStation = NoStation,
                                                !.playError = "none"]

LMount(s, act, pow) ==
    /\ MountedIds = {}
    /\ NextId <= MaxInstances
    /\ \E ok \in BOOLEAN :
          players' = [players EXCEPT ![NextId] = legacyEffect(NewPlayer(s, act, pow), ok)]
    /\ players'[NextId].rafLoops <= MaxLoops
    /\ audioData' = IF legacyPublishes(NewPlayer(s, act, pow))
                    THEN NextSnapshot ELSE audioData
    /\ UNCHANGED <<page, server>>

LSetProps(p, s, act, pow) ==
    /\ Mounted(players[p])
    /\ <<s, act, pow>> # <<players[p].stationId, players[p].isActive, players[p].isPoweredOn>>
    /\ \E ok \in BOOLEAN :
          players' = [players EXCEPT
                         ![p] = legacyEffect([@ EXCEPT !.stationId = s, !.isActive = act,
                                                       !.isPoweredOn = pow], ok)]
    /\ players'[p].rafLoops <= MaxLoops
    /\ audioData' = IF legacyPublishes([players[p] EXCEPT !.isActive = act,
                                                          !.isPoweredOn = pow])
                    THEN NextSnapshot ELSE audioData
    /\ UNCHANGED <<page, server>>

\* The framework runs the effects again with unchanged props: the cleanup with
\* the element still attached, then the effect.
LRerun(p) ==
    /\ Mounted(players[p])
    /\ \E ok \in BOOLEAN :
          players' = [players EXCEPT ![p] = legacyEffect(legacyCleanup(@, TRUE), ok)]
    /\ players'[p].rafLoops <= MaxLoops
    /\ audioData' = IF legacyPublishes(legacyCleanup(players[p], TRUE))
                    THEN NextSnapshot ELSE audioData
    /\ UNCHANGED <<page, server>>

LUnmount(p) ==
    /\ Mounted(players[p])
    /\ players' = [players EXCEPT ![p] = legacyUnmount(@)]
    /\ UNCHANGED <<page, server, audioData>>

NextLegacy ==
    \/ \E s \in Stations, act \in BOOLEAN, pow \in BOOLEAN : LMount(s, act, pow)
    \/ \E p \in PlayerIds, s \in Stations, act \in BOOLEAN, pow \in BOOLEAN :
          LSetProps(p, s, act, pow)
    \/ \E p \in PlayerIds : LRerun(p)
    \/ \E p \in PlayerIds : LUnmount(p)
    \/ \E p \in PlayerIds : CanPlay(p)
    \/ \E p \in PlayerIds, st \in FailureStatuses : StreamError(p, st)
    \/ \E p \in PlayerIds : ReconnectTimer(p)
    \/ \E p \in PlayerIds : Tick(p)

SpecLegacy == Init /\ [][NextLegacy]_vars

----------------------------------------------------------------------------
(* Properties of the page and its player *)

PlayingIds == {p \in PlayerIds : Audible(players[p])}

\* C1: at most one session is Playing (delivers audio to the output sink) at
\* any instant, whatever the interleaving of selections, play requests,
\* readiness, failures and timers.
C1_AtMostOnePlaying == Cardinality(PlayingIds) <= 1

\* C2: createMediaElementSource is called at most once on any audio element,
\* however often the setup effect runs for it.
C2_DecodeNodeOnce == \A p \in PlayerIds : players[p].decodeCalls <= 1

\* The setup effect has run again on an element that already had its decode
\* node, and issued a second load on it.
C2_Witness ==
    \E p \in PlayerIds :
        players[p].sourceNode /\ players[p].decodeCalls = 1 /\ players[p].loads = 2

\* C3: the setup effect issues the load for an unchanged target exactly once;
\* a later run for the same station id neither reassigns src nor calls load().
C3_LoadOnce == \A p \in PlayerIds : players[p].loads <= 1

\* C4: a redundant run of the effects for the station that is still current
\* does not pause a playing element and does not close its context.
C4_RedundantKeepsPlaying ==
    [][\A p \in PlayerIds :
          (Rerun(p) /\ ElementPlaying(players[p]))
              => (~players'[p].paused /\ players'[p].ctx # "closed")]_vars

\* C5: once an instance has been torn down destructively (unmounted because
\* the station changed or the radio was switched off) its element is paused
\* and its context, if it has one, is closed.
C5_DestructiveTeardown ==
    \A p \in PlayerIds :
        players[p].status = "unmounted"
            => (players[p].paused /\ players[p].ctx \in {"none", "closed"})

\* C7: in a run of stream failures without a success in between, exactly three
\* reconnect timers are scheduled; the failure of the third attempt gives the
\* terminal state with the retry-exhausted message and no timer.
C7_ThreeRetries ==
    \A p \in PlayerIds :
        /\ players[p].retries <= MaxReconnectAttempts
        /\ players[p].error = "failed"
               => (players[p].attempts = MaxReconnectAttempts /\ players[p].timers = 0)

\* C8: whenever a session is Playing its reconnect attempt counter is 0.
C8_SuccessResetsCounter ==
    \A p \in PlayerIds :
        (Mounted(players[p]) /\ ElementPlaying(players[p])) => players[p].attempts = 0

\* C9: a mounted session that is Playing and has an analysis node has a
\* visualizer loop scheduled, so frames keep reaching onAudioData.
C9_PlayingFeedsVisualizer ==
    \A p \in PlayerIds :
        (Mounted(players[p]) /\ ElementPlaying(players[p]) /\ players[p].analyser)
            => players[p].rafLoops > 0

\* C10: at most one play-when-ready listener is registered on an element.
C10_OnePendingPlay == \A p \in PlayerIds : players[p].pendingPlay <= 1


\* C6: a player that prepares or plays never holds a closed AudioContext as
\* its current graph: after a close, the next run of the setup effect leaves
\* it with an open context.
C6_NoClosedGraphInUse ==
    \A p \in PlayerIds :
        (Mounted(players[p]) /\ players[p].isActive /\ players[p].isPoweredOn
            /\ players[p].src # NoSrc)
            => players[p].ctx # "closed"

\* C11: the play-when-ready listener queued for a session is cancelled when
\* another source is selected: an unmounted player has no such listener left
\* and its element never plays again.
C11_SwitchCancelsPendingPlay ==
    \A p \in PlayerIds :
        players[p].status = "unmounted"
            => (players[p].pendingPlay = 0 /\ ~ElementPlaying(players[p]))

\* C12: a reconnect timer is outstanding only on a mounted player and only for
\* the station that player currently has: the callback armed for a previous
\* source never runs after the switch or the unmount.
C12_SwitchCancelsReconnect ==
    \A p \in PlayerIds :
        players[p].timers > 0
            => (Mounted(players[p]) /\ players[p].timerStation = players[p].stationId)

\* A mounted player whose station changed while its reconnect timer was armed:
\* the error text of the failure is still shown, the counter was reset by the
\* load of the new station and no timer is left.
C12_Witness ==
    /\ origin = LocalOrigin
    /\ \E p \in PlayerIds :
          /\ Mounted(players[p]) /\ players[p].isActive /\ players[p].isPoweredOn
          /\ players[p].error = "retrying"
          /\ players[p].attempts = 0
          /\ players[p].timers = 0

\* C13: the locator of an element is never the empty value while a decode node
\* is attached to the element or a play-when-ready listener is pending on it.
C13_SrcNeverCleared ==
    \A p \in PlayerIds :
        (players[p].sourceNode \/ players[p].pendingPlay > 0) => players[p].src # NoSrc

\* C14: a play() the platform rejects is not retried automatically (the call
\* arms no reconnect timer and leaves the attempt counter alone) and its
\* rejection reaches the parent through onError.
C14_RejectedPlaySurfaced ==
    \A p \in PlayerIds :
        /\ players[p].playError # "swallowed"
        /\ CanRequestPlay(players[p])
               => /\ play(players[p], FALSE).timers = players[p].timers
                  /\ play(players[p], FALSE).attempts = players[p].attempts
        /\ /\ playWhenReady(players[p], FALSE).timers = players[p].timers
           /\ playWhenReady(players[p], FALSE).attempts = players[p].attempts
        /\ players[p].timers > 0
               => /\ reconnectCallback(players[p], FALSE).timers < players[p].timers
                  /\ reconnectCallback(players[p], FALSE).attempts = players[p].attempts

\* C15: a failure with status 404 or 403 takes the player straight to the
\* terminal error with no reconnect attempt; a failure with status 429 or 503
\* goes through the bounded reconnect policy.
C15_TerminalStatuses ==
    [][\A p \in PlayerIds, st \in FailureStatuses :
          (StreamError(p, st) /\ Mounted(players[p]))
              => /\ st \in {404, 403}
                       => /\ players'[p].error = "failed"
                          /\ players'[p].timers = 0
                          /\ players'[p].attempts = players[p].attempts
                 /\ st \in {429, 503}
                       => IF RetriesExhausted(players[p])
                          THEN players'[p].error = "failed"
                          ELSE /\ players'[p].error = "retrying"
                               /\ players'[p].timers = 1
                               /\ players'[p].attempts = players[p].attempts + 1]_vars

\* C16: when isActive or isPoweredOn of a mounted player becomes false the
\* player is only paused: the element is paused, isPlaying is false, no
\* visualizer frame and no reconnect timer stay scheduled, and the context,
\* the decode node and the locator are what they were.
C16_DeactivateOnlyPauses ==
    [][\A p \in PlayerIds, s \in Stations, act \in BOOLEAN, pow \in BOOLEAN :
          ((CSetProps(p, s, act, pow) \/ LSetProps(p, s, act, pow)) /\ ~(act /\ pow))
              => /\ players'[p].paused
                 /\ ~players'[p].isPlaying
                 /\ players'[p].rafLoops = 0
                 /\ players'[p].timers = 0
                 /\ players'[p].ctx = players[p].ctx
                 /\ players'[p].sourceNode = players[p].sourceNode
                 /\ players'[p].src = players[p].src]_vars

\* C17: the route lets at most 10 requests of one address pass the rate check
\* within one window; the further ones are answered 429.
C17_TenPerWindow == \A ip \in Ips : rateLimitMap[ip].count <= 10

\* C18: the route fetches only from the host radio.watkinsgeorge.com: a
\* request for a station configured with a URL on any other host, a host
\* whose name merely contains that name included, is answered 403 and nothing
\* is fetched.
C18_OnlyAllowedHost ==
    \A h \in Headers, id \in Stations, up \in Upstream :
        /\ ResponseTo(h, id, up).fetched # NoFetch
               => Hostname(ResponseTo(h, id, up).fetched) = allowedDomain
        /\ ( /\ checkRateLimit(rateLimitMap, now, ClientIp(h)).allowed
             /\ Parses(catalog[id])
             /\ Hostname(catalog[id]) # allowedDomain )
               => ResponseTo(h, id, up) = [status |-> 403, fetched |-> NoFetch]

\* C19: the route checks the rate limit, then the station id, then the
\* configured URL and its domain, then fetches; the first check that fails
\* decides the status (429; 404; 503 for a URL that is not configured; 500 for
\* one that does not parse; 403; 503 for a failed fetch or a missing body),
\* nothing is fetched unless every check passed, and 200 is returned only
\* when the fetch succeeded too.
C19_ChecksInOrder ==
    \A h \in Headers, id \in RequestIds, up \in Upstream :
        LET limited == ~checkRateLimit(rateLimitMap, now, ClientIp(h)).allowed
            known == id \in Stations
            passed == /\ ~limited /\ known
                      /\ catalog[id] \notin {"", "#"}
                      /\ Parses(catalog[id])
                      /\ Includes(Hostname(catalog[id]), allowedDomain)
            expected == IF limited THEN 429
                        ELSE IF ~known THEN 404
                        ELSE IF catalog[id] \in {"", "#"} THEN 503
                        ELSE IF ~Parses(catalog[id]) THEN 500
                        ELSE IF ~passed THEN 403
                        ELSE IF up # "ok" THEN 503
                        ELSE 200
        IN /\ ResponseTo(h, id, up).status = expected
           /\ (ResponseTo(h, id, up).fetched # NoFetch) = passed

\* C20: no url of the station configuration is part of the client's state:
\* the page holds station ids only and the players request the locators
\* /api/stream/<id> only.
C20_UpstreamUrlHidden ==
    /\ \A s \in Stations : selectedStation.url # catalog[s]
    /\ \A p \in PlayerIds :
          players[p].src \in {NoSrc} \cup {StreamUrl(s) : s \in Stations}

----------------------------------------------------------------------------
(* The stations page: power and selection *)

\* C21: powering the radio on starts no audio: in every reachable state a
\* player is mounted only for the station that is selected, a station is
\* selected only while the radio is on, and with no station selected the play
\* timer of the page reaches no audio.play().
C21_PowerOnStartsNoAudio ==
    /\ \A p \in PlayerIds :
          Mounted(players[p]) =>
             /\ selectedStation # NoSelection
             /\ selectedStation.id = players[p].stationId
    /\ selectedStation # NoSelection => isOn
    /\ selectedStation = NoSelection =>
          \A ok \in BOOLEAN, p \in PlayerIds :
             ~Mounted(players[p]) \/ play(players[p], ok) = players[p]

\* The radio has been powered on, no station is selected and no element has
\* been told to play.
C21_Witness ==
    /\ isOn /\ warmTimers = 0
    /\ selectedStation = NoSelection
    /\ MountedIds = {}
    /\ \A p \in PlayerIds : players[p].paused /\ players[p].pendingPlay = 0

----------------------------------------------------------------------------
(* Playback: readiness, visualizer, resume *)

\* C22: audio.play() is committed only after readiness on every path: an
\* element that has been told to play (it is not paused) has reached
\* readiness for its current load, or reached it and failed afterwards.
C22_PlayOnlyWhenReady ==
    \A p \in PlayerIds :
       ~players[p].paused => players[p].ready \/ players[p].failed

\* C23: the visualizer loop is scheduled only while the session is playing:
\* it is cancelled the moment playback is left (pause, stream error,
\* reconnecting, deactivation, teardown) and no pass is scheduled before
\* playback has begun.
C23_VisualizerOnlyWhilePlaying ==
    \A p \in PlayerIds :
       players[p].rafLoops > 0 =>
          Mounted(players[p]) /\ ElementPlaying(players[p])

C25_ResumeOnEveryPlay ==
    \A p \in PlayerIds, ok \in BOOLEAN :
       (Mounted(players[p]) /\ players[p].ctx = "suspended") =>
          /\ CanRequestPlay(players[p]) =>
                play(players[p], ok).ctx # "suspended"
          /\ players[p].pendingPlay > 0 =>
                playWhenReady(players[p], ok).ctx # "suspended"
          /\ players[p].timers > 0 =>
                reconnectCallback(players[p], ok).ctx # "suspended"

----------------------------------------------------------------------------
(* Reconnection: attempt counter and delays *)

\* C26: the reconnect attempt counter stays between 0 and 3 in every
\* reachable state.
C26_AttemptsBounded ==
    \A p \in PlayerIds :
       players[p].attempts >= 0 /\ players[p].attempts <= MaxReconnectAttempts

\* The third attempt has been made and the next failure was refused.
C26_Witness ==
    \E p \in PlayerIds :
       /\ players[p].attempts = MaxReconnectAttempts
       /\ players[p].error = "failed"

\* C27: the delay of the n-th reconnect attempt is min(3000 * n, 10000)
\* milliseconds: 3000, 6000 and 9000 for the three attempts, each at least
\* the one before and none above the cap.
C27_BackoffDelays ==
    [][\A p \in PlayerIds :
          players'[p].attempts = players[p].attempts + 1 =>
             /\ players'[p].timers > 0
             /\ players'[p].timerDelay =
                   Min(ReconnectBaseDelay * players'[p].attempts, ReconnectDelayCap)
             /\ players'[p].timerDelay \in {3000, 6000, 9000}
             /\ players'[p].timerDelay <= ReconnectDelayCap
             /\ players'[p].timerDelay >=
                   Min(ReconnectBaseDelay * players[p].attempts, ReconnectDelayCap)]_vars

\* The timer of the third attempt is armed, with a delay of 9000 ms.
C27_Witness ==
    \E p \in PlayerIds :
       /\ players[p].timers > 0
       /\ players[p].attempts = 3
       /\ players[p].timerDelay = 9000

----------------------------------------------------------------------------
(* The audio graph and the playing flag *)

C29_PlayingFlagTruthful ==
    \A p \in PlayerIds :
       (Mounted(players[p]) /\ players[p].isPlaying) => ElementPlaying(players[p])

\* C30: while isActive or isPoweredOn is false no path makes the element
\* play: the element of a mounted instance that is deactivated stays paused.
C30_NoPlayWhileDeactivated ==
    \A p \in PlayerIds :
       (Mounted(players[p]) /\ ~(players[p].isActive /\ players[p].isPoweredOn))
          => players[p].paused

----------------------------------------------------------------------------
(* Timers, frames and the rate limiter *)

\* C31: at most one reconnect timer is outstanding per player: a timer is
\* armed only after the one armed before it was cleared or has fired.
C31_OneReconnectTimer == \A p \in PlayerIds : players[p].timers <= 1

\* The timer of a second attempt is outstanding, alone.
C31_Witness ==
    \E p \in PlayerIds :
       /\ Mounted(players[p])
       /\ players[p].attempts = 2
       /\ players[p].timers = 1
       /\ players[p].timerRef = "live"

\* C32: at most one visualizer loop (chain of animation frames) is scheduled
\* per player: a loop is started only after the frame scheduled before it was
\* cancelled.
C32_OneVisualizerLoop == \A p \in PlayerIds : players[p].rafLoops <= 1

\* C33: once the radio is powered off it stays off until the power button is
\* clicked again.  isWarming is set by a click on the power button of a radio
\* that is off and is false after every power-off, so the radio turns on only
\* while it is warming: no warm-up timer left from a click before the
\* power-off sets isOn.
C33_StaysOffAfterPowerOff ==
    [][(~isOn /\ isOn') => isWarming]_vars

\* C34: every stored rate limit record has 1 <= count <=
\* RATE_LIMIT_MAX_REQUESTS; a request changes no record but that of its own
\* address; a rejected request leaves the record of its address as it was.
C34_RateRecordsSound ==
    /\ \A ip \in Ips :
          rateLimitMap[ip] # NoRecord =>
             /\ rateLimitMap[ip].count >= 1
             /\ rateLimitMap[ip].count <= RATE_LIMIT_MAX_REQUESTS
    /\ \A h \in Headers, id \in RequestIds, up \in Upstream :
          LET after == GET(rateLimitMap, now, catalog, h, id, up)
          IN /\ \A ip \in Ips \ {ClientIp(h)} : after.map[ip] = rateLimitMap[ip]
             /\ after.response.status = 429 => after.map = rateLimitMap

\* An address has used up its window and is being rejected while another
\* address has a record of its own that is not used up.
C34_Witness ==
    \E h \in Headers, ip \in Ips :
       /\ ip # ClientIp(h)
       /\ rateLimitMap[ClientIp(h)].count = RATE_LIMIT_MAX_REQUESTS
       /\ ~checkRateLimit(rateLimitMap, now, ClientIp(h)).allowed
       /\ rateLimitMap[ip] # NoRecord
       /\ rateLimitMap[ip].count < RATE_LIMIT_MAX_REQUESTS

\* C35: an address is admitted again after its window.  A request arriving
\* strictly after the resetTime of the record of its address is allowed and
\* replaces the record by count = 1 and resetTime = now + window, and so is
\* a request whose record the cleanup has deleted; a request arriving at
\* resetTime or before is judged against the old record: rejected when the
\* count is used up, counted into the same window otherwise.
C35_AdmittedAfterWindow ==
    \A ip \in Ips :
       LET record == rateLimitMap[ip]
           after == checkRateLimit(rateLimitMap, now, ip)
           fresh == [count |-> 1, resetTime |-> now + RATE_LIMIT_WINDOW]
       IN /\ (record = NoRecord \/ now > record.resetTime) =>
                after.allowed /\ after.map[ip] = fresh
          /\ (record # NoRecord /\ now <= record.resetTime) =>
                /\ after.allowed = (record.count < RATE_LIMIT_MAX_REQUESTS)
                /\ after.map[ip].resetTime = record.resetTime
                /\ after.map[ip].count =
                      IF after.allowed THEN record.count + 1 ELSE record.count
          /\ cleanupRecords(rateLimitMap, now)[ip] \in {record, NoRecord}
          /\ checkRateLimit(cleanupRecords(rateLimitMap, now), now, ip) =
                [after EXCEPT !.map = [cleanupRecords(rateLimitMap, now) EXCEPT
                                          ![ip] = after.map[ip]]]

\* An address whose window is used up asks again in the millisecond after its
\* resetTime.
C35_Witness ==
    \E ip \in Ips :
       /\ rateLimitMap[ip].count = RATE_LIMIT_MAX_REQUESTS
       /\ now = rateLimitMap[ip].resetTime + 1
       /\ checkRateLimit(rateLimitMap, now, ip).allowed


====
